---- MODULE Spec2Model ----
(***************************************************************************)
(* Model of the Everest control plane fragments:                           *)
(*   - pkg/cli/namespaces/add.go : namespace validation and provisioning   *)
(*   - package api (restore handlers): RBAC guard and list filtering       *)
(* Strings are sequences of one-character strings so that Split,           *)
(* TrimSpace and the RFC 1035 check are computed, not assumed.             *)
(***************************************************************************)
EXTENDS Integers, Sequences, FiniteSets, TLC

\* ------------------------------------------------------------------ bounds
\* Largest number of comma separated tokens in cfg.Namespaces.
MaxTokens == 3
\* Largest number of items in a fetched restore list.
MaxItems == 3

\* ------------------------------------------------------- string constants
LowerAlpha ==
    {"a","b","c","d","e","f","g","h","i","j","k","l","m",
     "n","o","p","q","r","s","t","u","v","w","x","y","z"}

Digits == {"0","1","2","3","4","5","6","7","8","9"}

\* unicode.IsSpace restricted to the characters the inputs use
WhiteSpace == {" "}

\* common.Everest
Everest == <<"e","v","e","r","e","s","t">>

\* common.SystemNamespace
SystemNamespace == <<"e","v","e","r","e","s","t","-","s","y","s","t","e","m">>

\* common.MonitoringNamespace
MonitoringNamespace ==
    <<"e","v","e","r","e","s","t","-","m","o","n","i","t","o","r","i","n","g">>

\* kubernetes.OLMNamespace
OLMNamespace == <<"e","v","e","r","e","s","t","-","o","l","m">>

\* ------------------------------------------------------------- error values
Nil == [kind |-> "nil"]

ErrNSEmpty == [kind |-> "ErrNSEmpty"]

ErrNSReserved(ns) == [kind |-> "ErrNSReserved", ns |-> ns]

ErrNameNotRFC1035Compatible(fieldName) ==
    [kind |-> "ErrNameNotRFC1035Compatible", fieldName |-> fieldName]

\* ------------------------------------------------------------ string helpers
RECURSIVE SplitFrom(_, _, _, _)
\* scan str from position i; cur is the token collected so far
SplitFrom(str, sep, i, cur) ==
    IF i > Len(str) THEN <<cur>>
    ELSE IF str[i] = sep THEN <<cur>> \o SplitFrom(str, sep, i + 1, <<>>)
    ELSE SplitFrom(str, sep, i + 1, Append(cur, str[i]))

\* strings.Split(str, ","): always at least one (possibly empty) token
Split(str, sep) == SplitFrom(str, sep, 1, <<>>)

RECURSIVE TrimLeft(_)
TrimLeft(s) ==
    IF s # <<>> /\ Head(s) \in WhiteSpace THEN TrimLeft(Tail(s)) ELSE s

RECURSIVE TrimRight(_)
TrimRight(s) ==
    IF s # <<>> /\ s[Len(s)] \in WhiteSpace
    THEN TrimRight(SubSeq(s, 1, Len(s) - 1))
    ELSE s

\* strings.TrimSpace
TrimSpace(s) == TrimRight(TrimLeft(s))

\* the regexp with {0,62} in place of {0,61}
MatchRFC1035Wide(s) ==
    /\ Len(s) >= 1
    /\ s[1] \in LowerAlpha
    /\ \/ Len(s) = 1
       \/ /\ Len(s) - 2 <= 62
          /\ \A i \in 2..(Len(s) - 1) : s[i] \in LowerAlpha \cup Digits \cup {"-"}
          /\ s[Len(s)] \in LowerAlpha \cup Digits

\* regexp "^[a-z]([-a-z0-9]{0,61}[a-z0-9])?$"
MatchRFC1035(s) ==
    /\ Len(s) >= 1
    /\ s[1] \in LowerAlpha
    /\ \/ Len(s) = 1
       \/ /\ Len(s) - 2 <= 61
          /\ \A i \in 2..(Len(s) - 1) : s[i] \in LowerAlpha \cup Digits \cup {"-"}
          /\ s[Len(s)] \in LowerAlpha \cup Digits

\* validateRFC1035 of package namespaces
validateRFC1035(s) ==
    IF ~MatchRFC1035(s) THEN ErrNameNotRFC1035Compatible(s) ELSE Nil

\* ------------------------------------------------------ ValidateNamespaces
RECURSIVE ValidateLoopNoReserved(_, _, _)
\* ValidateLoop without the reserved-name check
ValidateLoopNoReserved(nsList, i, m) ==
    IF i > Len(nsList) THEN [m |-> m, err |-> Nil]
    ELSE LET ns == TrimSpace(nsList[i]) IN
         IF ns = <<>> THEN ValidateLoopNoReserved(nsList, i + 1, m)
         ELSE IF validateRFC1035(ns) # Nil
              THEN [m |-> {}, err |-> validateRFC1035(ns)]
         ELSE ValidateLoopNoReserved(nsList, i + 1, m \cup {ns})

RECURSIVE ValidateLoopBreakOnBlank(_, _, _)
\* ValidateLoop leaving the loop at a blank token instead of skipping it
ValidateLoopBreakOnBlank(nsList, i, m) ==
    IF i > Len(nsList) THEN [m |-> m, err |-> Nil]
    ELSE LET ns == TrimSpace(nsList[i]) IN
         IF ns = <<>> THEN [m |-> m, err |-> Nil]
         ELSE IF ns = SystemNamespace \/ ns = MonitoringNamespace \/ ns = OLMNamespace
              THEN [m |-> {}, err |-> ErrNSReserved(ns)]
         ELSE IF validateRFC1035(ns) # Nil
              THEN [m |-> {}, err |-> validateRFC1035(ns)]
         ELSE ValidateLoopBreakOnBlank(nsList, i + 1, m \cup {ns})

RECURSIVE ValidateLoop(_, _, _)
\* the for loop over nsList from index i with the map m built so far
ValidateLoop(nsList, i, m) ==
    IF i > Len(nsList) THEN [m |-> m, err |-> Nil]
    ELSE LET ns == TrimSpace(nsList[i]) IN
         IF ns = <<>> THEN ValidateLoop(nsList, i + 1, m)
         ELSE IF ns = SystemNamespace \/ ns = MonitoringNamespace \/ ns = OLMNamespace
              THEN [m |-> {}, err |-> ErrNSReserved(ns)]
         ELSE IF validateRFC1035(ns) # Nil
              THEN [m |-> {}, err |-> validateRFC1035(ns)]
         ELSE ValidateLoop(nsList, i + 1, m \cup {ns})

\* all orders in which "for k := range m" can visit the keys of m
MapOrders(m) ==
    {l \in [1..Cardinality(m) -> m] : \A i, j \in 1..Cardinality(m) : i # j => l[i] # l[j]}

RECURSIVE TrimmedTokens(_, _)
\* the trimmed non-blank tokens of nsList from index i on, repeats included
TrimmedTokens(nsList, i) ==
    IF i > Len(nsList) THEN <<>>
    ELSE IF TrimSpace(nsList[i]) = <<>> THEN TrimmedTokens(nsList, i + 1)
    ELSE <<TrimSpace(nsList[i])>> \o TrimmedTokens(nsList, i + 1)

\* ValidateNamespaces appending to a slice instead of filling a map
ValidateNamespacesNoDedup(str) ==
    LET r == ValidateLoop(Split(str, ","), 1, {}) IN
    IF r.err # Nil THEN {[list |-> <<>>, err |-> r.err]}
    ELSE IF r.m = {} THEN {[list |-> <<>>, err |-> ErrNSEmpty]}
    ELSE {[list |-> TrimmedTokens(Split(str, ","), 1), err |-> Nil]}

\* ValidateNamespaces without the check for an empty list
ValidateNamespacesNoEmpty(str) ==
    LET r == ValidateLoop(Split(str, ","), 1, {}) IN
    IF r.err # Nil THEN {[list |-> <<>>, err |-> r.err]}
    ELSE {[list |-> l, err |-> Nil] : l \in MapOrders(r.m)}

\* ValidateNamespaces: the set of (list, err) results the call can return
ValidateNamespaces(str) ==
    LET r == ValidateLoop(Split(str, ","), 1, {}) IN
    IF r.err # Nil THEN {[list |-> <<>>, err |-> r.err]}
    ELSE IF r.m = {} THEN {[list |-> <<>>, err |-> ErrNSEmpty]}
    ELSE {[list |-> l, err |-> Nil] : l \in MapOrders(r.m)}

\* ------------------------------------------------------------ model inputs
db1 == <<"d","b","1">>

db2 == <<"d","b","2">>

\* the tokens a requested namespace string is built from: a plain name, a name
\* with surrounding blanks, a blank token, a reserved name, a non-compliant name
Tokens == {db1, <<" ">> \o db2, <<" ">>, SystemNamespace, <<"-","b","a","d">>}

RECURSIVE Join(_)
Join(toks) ==
    IF toks = <<>> THEN <<>>
    ELSE IF Len(toks) = 1 THEN toks[1]
    ELSE toks[1] \o <<",">> \o Join(Tail(toks))

TokenSeqs == UNION {[1..n -> Tokens] : n \in 0..MaxTokens}

\* the values of cfg.Namespaces the model starts from
Inputs == {Join(t) : t \in TokenSeqs}

\* the namespaces of the cluster the model tracks
ClusterNames == {db1, db2}

\* common.KubernetesManagedByLabel
KubernetesManagedByLabel == "app.kubernetes.io/managed-by"

NoLabels == [k \in {} |-> <<>>]

LabelSets ==
    {NoLabels, KubernetesManagedByLabel :> Everest,
     KubernetesManagedByLabel :> <<"H","e","l","m">>}

\* a namespace of the cluster: absent, or present with its labels
NsObjects == {[found |-> FALSE, labels |-> NoLabels]}
             \cup {[found |-> TRUE, labels |-> l] : l \in LabelSets}

\* ---------------------------------------------------------------- state
VARIABLES
    cfg,          \* NamespaceAddConfig: Namespaces, Update, TakeOwnership, NamespaceList
    populateErr,  \* what Populate returned
    cluster,      \* the namespaces of the external cluster
    pc,           \* position of the CLI invocation
    installSteps, \* Run's installSteps (the namespace of each step)
    stepIdx,      \* index of the step RunStepsWithSpinner is at
    stepLog,      \* per started step: what was resolved, decided and its outcome
    calls,        \* external calls made by the steps, in order
    runErr,       \* what Run returned
    req,          \* API: the request being served and what the collaborators answer
    apiCalls,     \* API: calls made while serving req, in order
    outcome,      \* API: what the handler returned
    listItems,    \* API: l.Items after the list transform ran
    pure,         \* the last call of a function on its own: name, arguments, results
    racer         \* a second invocation provisioning one namespace of the same cluster

nsVars == <<cfg, populateErr, cluster, pc, installSteps, stepIdx, stepLog, calls, runErr>>

apiVars == <<req, apiCalls, outcome, listItems>>

auxVars == <<pure, racer>>

vars == <<cfg, populateErr, cluster, pc, installSteps, stepIdx, stepLog, calls, runErr,
          req, apiCalls, outcome, listItems, pure, racer>>

NoCall == [fn |-> "none"]

NoRacer == [pc |-> "off"]

NoReq == [op |-> "none"]

ApiIdle ==
    /\ req = NoReq
    /\ apiCalls = <<>>
    /\ outcome = Nil
    /\ listItems = <<>>

NsIdle ==
    /\ cfg = [Namespaces |-> <<>>, Update |-> FALSE, TakeOwnership |-> FALSE,
              NamespaceList |-> <<>>]
    /\ populateErr = Nil
    /\ cluster = [n \in ClusterNames |-> [found |-> FALSE, labels |-> NoLabels]]
    /\ pc = "idle"
    /\ installSteps = <<>>
    /\ stepIdx = 0
    /\ stepLog = <<>>
    /\ calls = <<>>
    /\ runErr = Nil

\* ------------------------------------------------------- state resolution
\* kubeClient.GetNamespace: the object, NotFound, or another failure
GetNamespace(cl, namespace, fetchFails) ==
    IF fetchFails THEN [err |-> "Unavailable", ns |-> [found |-> FALSE, labels |-> NoLabels]]
    ELSE IF namespace \notin DOMAIN cl \/ ~cl[namespace].found
         THEN [err |-> "NotFound", ns |-> [found |-> FALSE, labels |-> NoLabels]]
    ELSE [err |-> "nil", ns |-> cl[namespace]]

\* isManagedByEverest looking only at the presence of the label
isManagedByEverestAnyValue(ns) ==
    LET ok  == KubernetesManagedByLabel \in DOMAIN ns.labels
    IN ok

isManagedByEverest(ns) ==
    LET ok  == KubernetesManagedByLabel \in DOMAIN ns.labels
    IN ok /\ ns.labels[KubernetesManagedByLabel] = Everest

ErrCannotCheck(cause) == [kind |-> "cannot check if namesapce exists", cause |-> cause]

namespaceExists(cl, namespace, fetchFails) ==
    LET r == GetNamespace(cl, namespace, fetchFails) IN
    IF r.err # "nil"
    THEN IF r.err = "NotFound"
         THEN [nsExists |-> FALSE, ownedByEverest |-> FALSE, err |-> Nil]
         ELSE [nsExists |-> FALSE, ownedByEverest |-> FALSE, err |-> ErrCannotCheck(r.err)]
    ELSE [nsExists |-> TRUE, ownedByEverest |-> isManagedByEverest(r.ns), err |-> Nil]

\* ------------------------------------------------------------ provisioning
ErrNotExist(namespace) == [kind |-> "conflict", msg |-> "does not exist", ns |-> namespace]

ErrNotManaged(namespace) ==
    [kind |-> "conflict", msg |-> "is not managed by Everest", ns |-> namespace]

ErrAlreadyExists(namespace) ==
    [kind |-> "conflict", msg |-> "already exists", ns |-> namespace]

ErrHelmInit(namespace) == [kind |-> "could not initialize Helm installer", ns |-> namespace]

ErrHelmInstall(namespace) == [kind |-> "helm install failed", ns |-> namespace]

ErrHelmCheck == [kind |-> "CheckHelmInstallation failed"]

\* provisionDBNamespaceCheck with the take-ownership flag dropped from the
\* install branch
provisionDBNamespaceCheckNoTakeOwnership(c, namespace, r) ==
    IF r.err # Nil THEN r.err
    ELSE IF c.Update
         THEN IF ~r.nsExists THEN ErrNotExist(namespace)
              ELSE IF ~r.ownedByEverest THEN ErrNotManaged(namespace)
              ELSE Nil
    ELSE IF r.nsExists THEN ErrAlreadyExists(namespace)
    ELSE Nil

\* provisionDBNamespaceCheck without the ownership check of the update branch
provisionDBNamespaceCheckNoOwner(c, namespace, r) ==
    IF r.err # Nil THEN r.err
    ELSE IF c.Update
         THEN IF ~r.nsExists THEN ErrNotExist(namespace)
              ELSE Nil
    ELSE IF r.nsExists /\ ~c.TakeOwnership THEN ErrAlreadyExists(namespace)
    ELSE Nil

\* provisionDBNamespaceCheck without the "already exists" branch
provisionDBNamespaceCheckNoExists(c, namespace, r) ==
    IF r.err # Nil THEN r.err
    ELSE IF c.Update
         THEN IF ~r.nsExists THEN ErrNotExist(namespace)
              ELSE IF ~r.ownedByEverest THEN ErrNotManaged(namespace)
              ELSE Nil
    ELSE Nil

\* provisionDBNamespace up to the installer: the error it returns before
\* building the installer, Nil when it goes on to install
provisionDBNamespaceCheck(c, namespace, r) ==
    IF r.err # Nil THEN r.err
    ELSE IF c.Update
         THEN IF ~r.nsExists THEN ErrNotExist(namespace)
              ELSE IF ~r.ownedByEverest THEN ErrNotManaged(namespace)
              ELSE Nil
    ELSE IF r.nsExists /\ ~c.TakeOwnership THEN ErrAlreadyExists(namespace)
    ELSE Nil

\* newInstaller always asking for the namespace to be created
newInstallerAlwaysCreate(namespace, nsExists) ==
    [ReleaseName |-> namespace, ReleaseNamespace |-> namespace,
     CreateReleaseNamespace |-> TRUE]

\* newInstaller asking for the namespace to be created when it exists
newInstallerCreateIfExists(namespace, nsExists) ==
    [ReleaseName |-> namespace, ReleaseNamespace |-> namespace,
     CreateReleaseNamespace |-> nsExists]

\* newInstaller releasing into db1 whatever the step's namespace
newInstallerFixedNamespace(namespace, nsExists) ==
    [ReleaseName |-> namespace, ReleaseNamespace |-> db1,
     CreateReleaseNamespace |-> ~nsExists]

\* the helm.Installer value provisionDBNamespace builds
newInstaller(namespace, nsExists) ==
    [ReleaseName |-> namespace, ReleaseNamespace |-> namespace,
     CreateReleaseNamespace |-> ~nsExists]

\* provisionDBNamespaceResult dropping the error of installer.Install
provisionDBNamespaceResultSwallow(namespace, installOutcome) ==
    IF installOutcome = "initError" THEN ErrHelmInit(namespace)
    ELSE Nil

\* what provisionDBNamespace returns after installer.Init / installer.Install
\* answered with installOutcome
provisionDBNamespaceResult(namespace, installOutcome) ==
    IF installOutcome = "initError" THEN ErrHelmInit(namespace)
    ELSE IF installOutcome = "installError" THEN ErrHelmInstall(namespace)
    ELSE Nil

\* the release installer applied: the namespace exists and carries the
\* ownership label
InstallerApply(cl, installer) ==
    [cl EXCEPT ![installer.ReleaseNamespace] =
        [found |-> TRUE, labels |-> KubernetesManagedByLabel :> Everest]]

\* steps.RunStepsWithSpinner after the step at idx returned err: stop with the
\* first error, otherwise go on to the next step
RunStepsWithSpinner(steps, idx, err) ==
    IF err # Nil THEN [pc |-> "done", stepIdx |-> idx, runErr |-> err]
    ELSE IF idx < Len(steps) THEN [pc |-> "resolve", stepIdx |-> idx + 1, runErr |-> Nil]
    ELSE [pc |-> "done", stepIdx |-> idx, runErr |-> Nil]

\* what the step decided: a resolver error decides nothing, an error of the
\* check is a conflict, otherwise the step installs or (cfg.Update) updates
stepDecision(c, r, err) ==
    IF r.err # Nil THEN "None"
    ELSE IF err # Nil THEN "Conflict"
    ELSE IF c.Update THEN "Update"
    ELSE "Install"

\* cfg.populateNamespaces (wizard skipped): the (cfg, err) pairs it can leave
populateNamespaces(c) ==
    {[cfg |-> IF r.err # Nil THEN c ELSE [c EXCEPT !.NamespaceList = r.list],
      err |-> r.err] : r \in ValidateNamespaces(c.Namespaces)}

\* cfg.Populate
Populate ==
    /\ pc = "start"
    /\ \E r \in populateNamespaces(cfg) :
         /\ cfg' = r.cfg
         /\ populateErr' = r.err
    /\ pc' = "populated"
    /\ UNCHANGED <<cluster, installSteps, stepIdx, stepLog, calls, runErr>>
    /\ UNCHANGED apiVars
    /\ UNCHANGED auxVars

\* NamespaceAdder.Run up to the first step: the helm check, then one step per
\* entry of cfg.NamespaceList. Run reads the list whether or not Populate ran
\* or succeeded.
RunStart ==
    /\ pc \in {"start", "populated"}
    /\ \E helmCheckFails \in BOOLEAN :
         IF helmCheckFails
         THEN /\ pc' = "done"
              /\ runErr' = ErrHelmCheck
              /\ UNCHANGED <<installSteps, stepIdx>>
         ELSE /\ installSteps' = cfg.NamespaceList
              /\ runErr' = Nil
              /\ IF cfg.NamespaceList = <<>>
                 THEN pc' = "done" /\ stepIdx' = 0
                 ELSE pc' = "resolve" /\ stepIdx' = 1
    /\ UNCHANGED <<cfg, populateErr, cluster, stepLog, calls>>
    /\ UNCHANGED apiVars
    /\ UNCHANGED auxVars

\* the running step: provisionDBNamespace resolves the namespace and decides
StepResolve ==
    /\ pc = "resolve"
    /\ \E fetchFails \in BOOLEAN :
         LET namespace == installSteps[stepIdx]
             r   == namespaceExists(cluster, namespace, fetchFails)
             err == provisionDBNamespaceCheck(cfg, namespace, r)
             entry == [ns |-> namespace, nsExists |-> r.nsExists,
                       ownedByEverest |-> r.ownedByEverest,
                       resolveErr |-> (r.err # Nil),
                       decision |-> stepDecision(cfg, r, err),
                       outcome |-> IF err # Nil THEN "Failed" ELSE "Running",
                       err |-> err]
             nxt == RunStepsWithSpinner(installSteps, stepIdx, err)
         IN /\ calls' = Append(calls, [op |-> "GetNamespace", ns |-> namespace,
                                       release |-> <<>>, create |-> FALSE,
                                       present |-> cluster[namespace].found,
                                       failed |-> fetchFails])
            /\ stepLog' = Append(stepLog, entry)
            /\ IF err # Nil
               THEN /\ pc' = nxt.pc
                    /\ stepIdx' = nxt.stepIdx
                    /\ runErr' = nxt.runErr
               ELSE /\ pc' = "install"
                    /\ UNCHANGED <<stepIdx, runErr>>
    /\ UNCHANGED <<cfg, populateErr, cluster, installSteps>>
    /\ UNCHANGED apiVars
    /\ UNCHANGED auxVars

\* the running step: provisionDBNamespace initialises and runs the installer
StepInstall ==
    /\ pc = "install"
    /\ \E installOutcome \in {"initError", "installError", "applied"} :
         LET namespace == installSteps[stepIdx]
             cur == stepLog[Len(stepLog)]
             installer == newInstaller(namespace, cur.nsExists)
             err == provisionDBNamespaceResult(namespace, installOutcome)
             nxt == RunStepsWithSpinner(installSteps, stepIdx, err)
             initCall == [op |-> "Init", ns |-> installer.ReleaseNamespace,
                          release |-> installer.ReleaseName,
                          create |-> installer.CreateReleaseNamespace,
                          present |-> cluster[installer.ReleaseNamespace].found,
                          failed |-> (installOutcome = "initError")]
             installCall == [op |-> "Install", ns |-> installer.ReleaseNamespace,
                             release |-> installer.ReleaseName,
                             create |-> installer.CreateReleaseNamespace,
                             present |-> cluster[installer.ReleaseNamespace].found,
                             failed |-> (installOutcome = "installError")]
         IN /\ calls' = IF installOutcome = "initError"
                        THEN Append(calls, initCall)
                        ELSE calls \o <<initCall, installCall>>
            /\ cluster' = IF installOutcome = "applied"
                          THEN InstallerApply(cluster, installer)
                          ELSE cluster
            /\ stepLog' = [stepLog EXCEPT ![Len(stepLog)] =
                              [cur EXCEPT !.outcome = IF err # Nil THEN "Failed" ELSE "Applied",
                                          !.err = err]]
            /\ pc' = nxt.pc
            /\ stepIdx' = nxt.stepIdx
            /\ runErr' = nxt.runErr
    /\ UNCHANGED <<cfg, populateErr, installSteps>>
    /\ UNCHANGED apiVars
    /\ UNCHANGED auxVars

Init ==
    /\ cfg \in [Namespaces : Inputs, Update : BOOLEAN, TakeOwnership : BOOLEAN,
                NamespaceList : {<<>>}]
    /\ populateErr = Nil
    /\ cluster \in [ClusterNames -> NsObjects]
    /\ pc = "start"
    /\ installSteps = <<>>
    /\ stepIdx = 0
    /\ stepLog = <<>>
    /\ calls = <<>>
    /\ runErr = Nil
    /\ ApiIdle
    /\ pure = NoCall
    /\ racer = NoRacer

Next ==
    \/ Populate
    \/ RunStart
    \/ StepResolve
    \/ StepInstall

Spec == Init /\ [][Next]_vars

\* ================================================================ API: restores
\* rbac resource and action names
ResourceDatabaseClusterCredentials == "database-cluster-credentials"

ResourceDatabaseClusterBackups == "database-cluster-backups"

ResourceDatabaseClusterRestores == "database-cluster-restores"

ActionRead == "read"

ActionUpdate == "update"

ActionDelete == "delete"

\* everestv1alpha1.AppStateRestoring
AppStateRestoring == "restoring"

errInsufficientPermissions == [kind |-> "errInsufficientPermissions"]

ErrPolicy == [kind |-> "policy store failure"]

ErrDecode == [kind |-> "failed to convert unstructured to DatabaseClusterRestore"]

ErrKube == [kind |-> "cluster API failure"]

Msg(text) == [kind |-> text]

\* what a handler returns: ctx.JSON(code, body), a bare error, or the result
\* of the pass-through
JSON(code, body) == [kind |-> "json", code |-> code, body |-> body]

ReturnErr(err) == [kind |-> "error", code |-> 0, body |-> err]

Proxied == [kind |-> "proxy", code |-> 0, body |-> Msg("forwarded")]

\* rbac.ObjectName
ObjectName(namespace, name) == <<namespace, name>>

Verdicts == {"Allowed", "Denied", "Error"}

\* the Authorizer's answer for one check; no grant means Denied
Verdict(policy, key) == IF key \in DOMAIN policy THEN policy[key] ELSE "Denied"

RbacCall(key) == [target |-> "rbac", op |-> "enforce", key |-> key]

KubeCall(op) == [target |-> "kube", op |-> op, key |-> <<>>]

ProxyCall == [target |-> "proxy", op |-> "proxyKubernetes", key |-> <<>>]

DecodeCall(i) == [target |-> "decode", op |-> "FromUnstructured", key |-> <<i>>]

\* e.enforce: nil when Allowed, errInsufficientPermissions when Denied, the
\* infrastructure error otherwise
enforce(policy, user, resource, action, object) ==
    LET v == Verdict(policy, <<resource, action, object>>) IN
    [calls |-> <<RbacCall(<<resource, action, object>>)>>,
     err |-> IF v = "Allowed" THEN Nil
             ELSE IF v = "Denied" THEN errInsufficientPermissions
             ELSE ErrPolicy]

\* enforceDBRestoreRBAC with the three checks joined by "or"
enforceDBRestoreRBACAnyOf(policy, user, namespace, srcBackupName, dbClusterName) ==
    LET a == enforce(policy, user, ResourceDatabaseClusterCredentials, ActionRead,
                     ObjectName(namespace, dbClusterName))
        b == enforce(policy, user, ResourceDatabaseClusterBackups, ActionRead,
                     ObjectName(namespace, srcBackupName))
        c == enforce(policy, user, ResourceDatabaseClusterRestores, ActionRead,
                     ObjectName(namespace, dbClusterName))
    IN IF a.err = Nil THEN [calls |-> a.calls, err |-> Nil]
       ELSE IF b.err = Nil THEN [calls |-> a.calls \o b.calls, err |-> Nil]
       ELSE [calls |-> a.calls \o b.calls \o c.calls, err |-> c.err]

enforceDBRestoreRBAC(policy, user, namespace, srcBackupName, dbClusterName) ==
    LET a == enforce(policy, user, ResourceDatabaseClusterCredentials, ActionRead,
                     ObjectName(namespace, dbClusterName))
        b == enforce(policy, user, ResourceDatabaseClusterBackups, ActionRead,
                     ObjectName(namespace, srcBackupName))
        c == enforce(policy, user, ResourceDatabaseClusterRestores, ActionRead,
                     ObjectName(namespace, dbClusterName))
    IN IF a.err # Nil THEN [calls |-> a.calls, err |-> a.err]
       ELSE IF b.err # Nil THEN [calls |-> a.calls \o b.calls, err |-> b.err]
       ELSE [calls |-> a.calls \o b.calls \o c.calls, err |-> c.err]

\* enforceDBClusterListRestoreRBAC naming the restore itself as the object
enforceDBClusterListRestoreRBACOwnName(policy, user, restore, action) ==
    enforce(policy, user, ResourceDatabaseClusterRestores, action,
            ObjectName(restore.namespace, restore.name))

enforceDBClusterListRestoreRBAC(policy, user, restore, action) ==
    enforce(policy, user, ResourceDatabaseClusterRestores, action,
            ObjectName(restore.namespace, restore.dbClusterName))

\* ---------------------------------------------------------- list filtering
RECURSIVE rbacFilterKeepGoing(_, _, _, _, _, _)
\* rbacFilterLoop treating every Authorizer error like a denial
rbacFilterKeepGoing(policy, user, items, i, allowed, done) ==
    IF i > Len(items) THEN [items |-> allowed, err |-> Nil, calls |-> done]
    ELSE LET obj == items[i] IN
         IF ~obj.decodable
         THEN [items |-> items, err |-> ErrDecode, calls |-> Append(done, DecodeCall(i))]
         ELSE LET a == enforceDBClusterListRestoreRBAC(policy, user, obj, ActionRead)
                  seen == Append(done, DecodeCall(i)) \o a.calls
              IN IF a.err # Nil
                 THEN rbacFilterKeepGoing(policy, user, items, i + 1, allowed, seen)
                 ELSE rbacFilterKeepGoing(policy, user, items, i + 1, Append(allowed, obj), seen)

RECURSIVE rbacFilterPrepend(_, _, _, _, _, _)
\* rbacFilterLoop collecting the allowed items in reverse
rbacFilterPrepend(policy, user, items, i, allowed, done) ==
    IF i > Len(items) THEN [items |-> allowed, err |-> Nil, calls |-> done]
    ELSE LET obj == items[i] IN
         IF ~obj.decodable
         THEN [items |-> items, err |-> ErrDecode, calls |-> Append(done, DecodeCall(i))]
         ELSE LET a == enforceDBClusterListRestoreRBAC(policy, user, obj, ActionRead)
                  seen == Append(done, DecodeCall(i)) \o a.calls
              IN IF a.err = errInsufficientPermissions
                 THEN rbacFilterPrepend(policy, user, items, i + 1, allowed, seen)
                 ELSE IF a.err # Nil
                 THEN [items |-> items, err |-> a.err, calls |-> seen]
                 ELSE rbacFilterPrepend(policy, user, items, i + 1, <<obj>> \o allowed, seen)

RECURSIVE rbacFilterLoop(_, _, _, _, _, _)
\* the loop of rbacFilter at item i: allowed is the slice built so far, done
\* the decode and Authorizer calls made so far; l.Items is assigned only when
\* the loop ends
rbacFilterLoop(policy, user, items, i, allowed, done) ==
    IF i > Len(items) THEN [items |-> allowed, err |-> Nil, calls |-> done]
    ELSE LET obj == items[i] IN
         IF ~obj.decodable
         THEN [items |-> items, err |-> ErrDecode, calls |-> Append(done, DecodeCall(i))]
         ELSE LET a == enforceDBClusterListRestoreRBAC(policy, user, obj, ActionRead)
                  seen == Append(done, DecodeCall(i)) \o a.calls
              IN IF a.err = errInsufficientPermissions
                 THEN rbacFilterLoop(policy, user, items, i + 1, allowed, seen)
                 ELSE IF a.err # Nil
                 THEN [items |-> items, err |-> a.err, calls |-> seen]
                 ELSE rbacFilterLoop(policy, user, items, i + 1, Append(allowed, obj), seen)

\* the transform ListDatabaseClusterRestores hands to proxyKubernetes
rbacFilter(policy, user, items) == rbacFilterLoop(policy, user, items, 1, <<>>, <<>>)

\* proxyKubernetes with a list transform: fetch the list, run the transform,
\* answer with the transformed list or with the transform's error
proxyKubernetesList(r) ==
    IF r.fail = "fetch"
    THEN [calls |-> <<ProxyCall>>, outcome |-> ReturnErr(ErrKube), items |-> <<>>]
    ELSE LET f == rbacFilter(r.policy, r.user, r.items) IN
         [calls |-> <<ProxyCall>> \o f.calls,
          outcome |-> IF f.err # Nil THEN ReturnErr(f.err) ELSE JSON(200, Msg("list")),
          items |-> f.items]

\* validateRFC1035(name, "name") of package api
apiValidateRFC1035(s, fieldName) ==
    IF ~MatchRFC1035(s) THEN ErrNameNotRFC1035Compatible(fieldName) ELSE Nil

ListDatabaseClusterRestores(r) ==
    IF apiValidateRFC1035(r.name, "name") # Nil
    THEN [calls |-> <<>>, outcome |-> JSON(400, apiValidateRFC1035(r.name, "name")),
          items |-> <<>>]
    ELSE IF r.fail = "user"
    THEN [calls |-> <<>>, outcome |-> JSON(500, Msg("Failed to get user from context")),
          items |-> <<>>]
    ELSE proxyKubernetesList(r)

\* ------------------------------------------------------ single-object handlers
\* CreateDatabaseClusterRestore testing the cluster status before the grants
CreateDatabaseClusterRestoreStatusFirst(r) ==
    IF r.fail = "user"
    THEN [calls |-> <<>>, outcome |-> JSON(500, Msg("Failed to get user from context")),
          items |-> <<>>]
    ELSE IF r.fail = "body"
    THEN [calls |-> <<>>, outcome |-> JSON(400, Msg("Could not get DatabaseClusterRestore")),
          items |-> <<>>]
    ELSE IF r.fail = "validate"
    THEN [calls |-> <<KubeCall("validateDatabaseClusterRestore")>>,
          outcome |-> JSON(400, Msg("invalid restore")), items |-> <<>>]
    ELSE IF r.fail = "getCluster"
    THEN [calls |-> <<KubeCall("validateDatabaseClusterRestore"),
                      KubeCall("GetDatabaseCluster")>>,
          outcome |-> JSON(500, ErrKube), items |-> <<>>]
    ELSE LET pre == <<KubeCall("validateDatabaseClusterRestore"),
                      KubeCall("GetDatabaseCluster")>>
             a == enforceDBRestoreRBAC(r.policy, r.user, r.namespace, r.srcBkp,
                                       r.dbClusterName)
         IN IF r.status = AppStateRestoring
            THEN [calls |-> pre,
                  outcome |-> JSON(400, Msg("Another restore process is in progress")),
                  items |-> <<>>]
            ELSE IF a.err # Nil
            THEN [calls |-> pre \o a.calls, outcome |-> ReturnErr(a.err), items |-> <<>>]
            ELSE [calls |-> pre \o a.calls \o <<ProxyCall>>, outcome |-> Proxied,
                  items |-> <<>>]

CreateDatabaseClusterRestore(r) ==
    IF r.fail = "user"
    THEN [calls |-> <<>>, outcome |-> JSON(500, Msg("Failed to get user from context")),
          items |-> <<>>]
    ELSE IF r.fail = "body"
    THEN [calls |-> <<>>, outcome |-> JSON(400, Msg("Could not get DatabaseClusterRestore")),
          items |-> <<>>]
    ELSE IF r.fail = "validate"
    THEN [calls |-> <<KubeCall("validateDatabaseClusterRestore")>>,
          outcome |-> JSON(400, Msg("invalid restore")), items |-> <<>>]
    ELSE IF r.fail = "getCluster"
    THEN [calls |-> <<KubeCall("validateDatabaseClusterRestore"),
                      KubeCall("GetDatabaseCluster")>>,
          outcome |-> JSON(500, ErrKube), items |-> <<>>]
    ELSE LET pre == <<KubeCall("validateDatabaseClusterRestore"),
                      KubeCall("GetDatabaseCluster")>>
             a == enforceDBRestoreRBAC(r.policy, r.user, r.namespace, r.srcBkp,
                                       r.dbClusterName)
         IN IF a.err # Nil
            THEN [calls |-> pre \o a.calls, outcome |-> ReturnErr(a.err), items |-> <<>>]
            ELSE IF r.status = AppStateRestoring
            THEN [calls |-> pre \o a.calls,
                  outcome |-> JSON(400, Msg("Another restore process is in progress")),
                  items |-> <<>>]
            ELSE [calls |-> pre \o a.calls \o <<ProxyCall>>, outcome |-> Proxied,
                  items |-> <<>>]

\* DeleteDatabaseClusterRestore forwarding the request whatever the Authorizer says
DeleteDatabaseClusterRestoreNoGate(r) ==
    IF r.fail = "user"
    THEN [calls |-> <<>>, outcome |-> JSON(500, Msg("Failed to get user from context")),
          items |-> <<>>]
    ELSE IF r.fail = "fetch"
    THEN [calls |-> <<KubeCall("GetDatabaseClusterRestore")>>,
          outcome |-> ReturnErr(ErrKube), items |-> <<>>]
    ELSE LET a == enforceDBClusterListRestoreRBAC(r.policy, r.user, r.restore, ActionDelete)
             pre == <<KubeCall("GetDatabaseClusterRestore")>> \o a.calls
         IN [calls |-> pre \o <<ProxyCall>>, outcome |-> Proxied, items |-> <<>>]

DeleteDatabaseClusterRestore(r) ==
    IF r.fail = "user"
    THEN [calls |-> <<>>, outcome |-> JSON(500, Msg("Failed to get user from context")),
          items |-> <<>>]
    ELSE IF r.fail = "fetch"
    THEN [calls |-> <<KubeCall("GetDatabaseClusterRestore")>>,
          outcome |-> ReturnErr(ErrKube), items |-> <<>>]
    ELSE LET a == enforceDBClusterListRestoreRBAC(r.policy, r.user, r.restore, ActionDelete)
             pre == <<KubeCall("GetDatabaseClusterRestore")>> \o a.calls
         IN IF a.err # Nil
            THEN [calls |-> pre, outcome |-> ReturnErr(a.err), items |-> <<>>]
            ELSE [calls |-> pre \o <<ProxyCall>>, outcome |-> Proxied, items |-> <<>>]

GetDatabaseClusterRestore(r) ==
    IF r.fail = "user"
    THEN [calls |-> <<>>, outcome |-> JSON(500, Msg("Failed to get user from context")),
          items |-> <<>>]
    ELSE IF r.fail = "fetch"
    THEN [calls |-> <<KubeCall("GetDatabaseClusterRestore")>>,
          outcome |-> ReturnErr(ErrKube), items |-> <<>>]
    ELSE LET a == enforceDBClusterListRestoreRBAC(r.policy, r.user, r.restore, ActionRead)
             pre == <<KubeCall("GetDatabaseClusterRestore")>> \o a.calls
         IN IF a.err # Nil
            THEN [calls |-> pre, outcome |-> ReturnErr(a.err), items |-> <<>>]
            ELSE [calls |-> pre, outcome |-> JSON(200, Msg("restore")),
                  items |-> <<r.restore>>]

\* UpdateDatabaseClusterRestore going on whatever the Authorizer says
UpdateDatabaseClusterRestoreNoGate(r) ==
    IF r.fail = "user"
    THEN [calls |-> <<>>, outcome |-> JSON(500, Msg("Failed to get user from context")),
          items |-> <<>>]
    ELSE IF r.fail = "fetch"
    THEN [calls |-> <<KubeCall("GetDatabaseClusterRestore")>>,
          outcome |-> ReturnErr(ErrKube), items |-> <<>>]
    ELSE LET a == enforceDBClusterListRestoreRBAC(r.policy, r.user, r.restore, ActionUpdate)
             pre == <<KubeCall("GetDatabaseClusterRestore")>> \o a.calls
         IN IF r.fail = "body"
            THEN [calls |-> pre,
                  outcome |-> JSON(400, Msg("Could not get DatabaseClusterRestore")),
                  items |-> <<>>]
            ELSE IF r.fail = "metadata"
            THEN [calls |-> pre, outcome |-> JSON(400, Msg("invalid metadata")),
                  items |-> <<>>]
            ELSE IF r.fail = "validate"
            THEN [calls |-> pre \o <<KubeCall("validateDatabaseClusterRestore")>>,
                  outcome |-> JSON(400, Msg("invalid restore")), items |-> <<>>]
            ELSE [calls |-> pre \o <<KubeCall("validateDatabaseClusterRestore"), ProxyCall>>,
                  outcome |-> Proxied, items |-> <<>>]

UpdateDatabaseClusterRestore(r) ==
    IF r.fail = "user"
    THEN [calls |-> <<>>, outcome |-> JSON(500, Msg("Failed to get user from context")),
          items |-> <<>>]
    ELSE IF r.fail = "fetch"
    THEN [calls |-> <<KubeCall("GetDatabaseClusterRestore")>>,
          outcome |-> ReturnErr(ErrKube), items |-> <<>>]
    ELSE LET a == enforceDBClusterListRestoreRBAC(r.policy, r.user, r.restore, ActionUpdate)
             pre == <<KubeCall("GetDatabaseClusterRestore")>> \o a.calls
         IN IF a.err # Nil
            THEN [calls |-> pre, outcome |-> ReturnErr(a.err), items |-> <<>>]
            ELSE IF r.fail = "body"
            THEN [calls |-> pre,
                  outcome |-> JSON(400, Msg("Could not get DatabaseClusterRestore")),
                  items |-> <<>>]
            ELSE IF r.fail = "metadata"
            THEN [calls |-> pre, outcome |-> JSON(400, Msg("invalid metadata")),
                  items |-> <<>>]
            ELSE IF r.fail = "validate"
            THEN [calls |-> pre \o <<KubeCall("validateDatabaseClusterRestore")>>,
                  outcome |-> JSON(400, Msg("invalid restore")), items |-> <<>>]
            ELSE [calls |-> pre \o <<KubeCall("validateDatabaseClusterRestore"), ProxyCall>>,
                  outcome |-> Proxied, items |-> <<>>]

\* ------------------------------------------------------------- API requests
RestoresKey(action, name) ==
    <<ResourceDatabaseClusterRestores, action, ObjectName("ns1", name)>>

CreateKeys ==
    {<<ResourceDatabaseClusterCredentials, ActionRead, ObjectName("ns1", "c1")>>,
     <<ResourceDatabaseClusterBackups, ActionRead, ObjectName("ns1", "b1")>>,
     RestoresKey(ActionRead, "c1")}

\* create requests: the restore names cluster c1 and backup b1
CreateRequests ==
    [op : {"create"}, user : {"alice"}, namespace : {"ns1"},
     fail : {"none", "user", "body", "validate", "getCluster"},
     dbClusterName : {"c1"}, srcBkp : {"b1"},
     status : {"ready", AppStateRestoring},
     policy : [CreateKeys -> Verdicts]]

StoredRestores == [name : {"r1"}, namespace : {"ns1"}, dbClusterName : {"c1", "c2"}]

ObjectKeys(action) == {RestoresKey(action, n) : n \in {"c1", "c2", "r1"}}

ObjectRequests(op, action, fails) ==
    [op : {op}, user : {"alice"}, namespace : {"ns1"}, fail : fails,
     restore : StoredRestores, policy : [ObjectKeys(action) -> Verdicts]]

ItemKinds == [dbClusterName : {"c1", "c2", "c3"}, decodable : BOOLEAN]

\* a fetched list built from kinds: item i is named "i"
ItemList(kinds) ==
    [i \in 1..Len(kinds) |-> [name |-> ToString(i), namespace |-> "ns1",
                              dbClusterName |-> kinds[i].dbClusterName,
                              decodable |-> kinds[i].decodable]]

\* the lists the cluster API can return
ItemLists == {ItemList(l) : l \in UNION {[1..n -> ItemKinds] : n \in 0..MaxItems}}

ListKeys == {RestoresKey(ActionRead, n) : n \in {"c1", "c2", "c3"}}

ListRequests ==
    [op : {"list"}, user : {"alice"}, namespace : {"ns1"}, fail : {"none"},
     name : {<<"c", "1">>}, items : ItemLists, policy : [ListKeys -> Verdicts]]
    \cup
    [op : {"list"}, user : {"alice"}, namespace : {"ns1"}, fail : {"none", "user", "fetch"},
     name : {<<"c", "1">>, <<"C", "1">>}, items : {<<>>},
     policy : {[k \in ListKeys |-> "Allowed"]}]

\* one action per handler: the request and the collaborators' answers are drawn,
\* the handler runs to its return
HandleList ==
    /\ req = NoReq
    /\ \E r \in ListRequests :
         LET h == ListDatabaseClusterRestores(r) IN
         /\ req' = r
         /\ apiCalls' = h.calls
         /\ outcome' = h.outcome
         /\ listItems' = h.items
    /\ UNCHANGED nsVars
    /\ UNCHANGED auxVars

HandleCreate ==
    /\ req = NoReq
    /\ \E r \in CreateRequests :
         LET h == CreateDatabaseClusterRestore(r) IN
         /\ req' = r
         /\ apiCalls' = h.calls
         /\ outcome' = h.outcome
         /\ listItems' = h.items
    /\ UNCHANGED nsVars
    /\ UNCHANGED auxVars

HandleDelete ==
    /\ req = NoReq
    /\ \E r \in ObjectRequests("delete", ActionDelete, {"none", "user", "fetch"}) :
         LET h == DeleteDatabaseClusterRestore(r) IN
         /\ req' = r
         /\ apiCalls' = h.calls
         /\ outcome' = h.outcome
         /\ listItems' = h.items
    /\ UNCHANGED nsVars
    /\ UNCHANGED auxVars

HandleGet ==
    /\ req = NoReq
    /\ \E r \in ObjectRequests("get", ActionRead, {"none", "user", "fetch"}) :
         LET h == GetDatabaseClusterRestore(r) IN
         /\ req' = r
         /\ apiCalls' = h.calls
         /\ outcome' = h.outcome
         /\ listItems' = h.items
    /\ UNCHANGED nsVars
    /\ UNCHANGED auxVars

HandleUpdate ==
    /\ req = NoReq
    /\ \E r \in ObjectRequests("update", ActionUpdate,
                {"none", "user", "fetch", "body", "metadata", "validate"}) :
         LET h == UpdateDatabaseClusterRestore(r) IN
         /\ req' = r
         /\ apiCalls' = h.calls
         /\ outcome' = h.outcome
         /\ listItems' = h.items
    /\ UNCHANGED nsVars
    /\ UNCHANGED auxVars

\* the response is sent; the server waits for the next request
Respond ==
    /\ req # NoReq
    /\ req' = NoReq
    /\ apiCalls' = <<>>
    /\ outcome' = Nil
    /\ listItems' = <<>>
    /\ UNCHANGED nsVars
    /\ UNCHANGED auxVars

InitApi == NsIdle /\ ApiIdle /\ pure = NoCall /\ racer = NoRacer

NextApi ==
    \/ HandleList
    \/ HandleCreate
    \/ HandleDelete
    \/ HandleGet
    \/ HandleUpdate
    \/ Respond

SpecApi == InitApi /\ [][NextApi]_vars

\* ------------------------------------------------- a second invocation
\* A second invocation of provisionDBNamespace on the same cluster, with the
\* same mode and take-ownership flag, for one namespace. The code takes no
\* lock; racer.serialized says whether the caller keeps the two invocations'
\* steps from overlapping.
RaceInputs == {Join(<<db1>>), Join(<<db1, <<" ">> \o db2>>)}

RacerIdle(serialized, namespace) ==
    [pc |-> "idle", serialized |-> serialized, ns |-> namespace,
     nsExists |-> FALSE, ownedByEverest |-> FALSE, resolveErr |-> FALSE,
     afterApplied |-> FALSE, before |-> [found |-> FALSE, labels |-> NoLabels],
     outcome |-> "Idle", err |-> Nil, calls |-> <<>>]

\* the caller's serialization: a step of one invocation starts only when no
\* step of the other is between its resolution and its installer call
MainMayStep == racer.serialized => racer.pc \in {"idle", "done"}

RacerMayStep == racer.serialized => pc \notin {"install"}

RaceStepResolve == MainMayStep /\ StepResolve

\* provisionDBNamespace of the second invocation resolves and decides
RacerResolve ==
    /\ racer.pc = "idle"
    /\ RacerMayStep
    /\ \E fetchFails \in BOOLEAN :
         LET namespace == racer.ns
             r   == namespaceExists(cluster, namespace, fetchFails)
             err == provisionDBNamespaceCheck(cfg, namespace, r)
         IN racer' = [racer EXCEPT
                !.pc = IF err # Nil THEN "done" ELSE "install",
                !.nsExists = r.nsExists,
                !.ownedByEverest = r.ownedByEverest,
                !.resolveErr = (r.err # Nil),
                !.afterApplied = \E i \in 1..Len(stepLog) :
                                    stepLog[i].ns = namespace /\ stepLog[i].outcome = "Applied",
                !.before = cluster[namespace],
                !.outcome = IF err # Nil THEN "Failed" ELSE "Running",
                !.err = err,
                !.calls = <<[op |-> "GetNamespace", ns |-> namespace,
                             release |-> <<>>, create |-> FALSE,
                             present |-> cluster[namespace].found,
                             failed |-> fetchFails]>>]
    /\ UNCHANGED <<nsVars, apiVars, pure>>

\* provisionDBNamespace of the second invocation initialises and runs the
\* installer
RacerInstall ==
    /\ racer.pc = "install"
    /\ \E installOutcome \in {"initError", "installError", "applied"} :
         LET namespace == racer.ns
             installer == newInstaller(namespace, racer.nsExists)
             err == provisionDBNamespaceResult(namespace, installOutcome)
             initCall == [op |-> "Init", ns |-> installer.ReleaseNamespace,
                          release |-> installer.ReleaseName,
                          create |-> installer.CreateReleaseNamespace,
                          present |-> cluster[installer.ReleaseNamespace].found,
                          failed |-> (installOutcome = "initError")]
             installCall == [op |-> "Install", ns |-> installer.ReleaseNamespace,
                             release |-> installer.ReleaseName,
                             create |-> installer.CreateReleaseNamespace,
                             present |-> cluster[installer.ReleaseNamespace].found,
                             failed |-> (installOutcome = "installError")]
         IN /\ racer' = [racer EXCEPT
                   !.pc = "done",
                   !.outcome = IF err # Nil THEN "Failed" ELSE "Applied",
                   !.err = err,
                   !.calls = IF installOutcome = "initError"
                             THEN Append(racer.calls, initCall)
                             ELSE racer.calls \o <<initCall, installCall>>]
            /\ cluster' = IF installOutcome = "applied"
                          THEN InstallerApply(cluster, installer)
                          ELSE cluster
    /\ UNCHANGED <<cfg, populateErr, pc, installSteps, stepIdx, stepLog, calls, runErr>>
    /\ UNCHANGED <<apiVars, pure>>

InitRace ==
    /\ cfg \in [Namespaces : RaceInputs, Update : BOOLEAN, TakeOwnership : BOOLEAN,
                NamespaceList : {<<>>}]
    /\ populateErr = Nil
    /\ cluster \in [ClusterNames -> NsObjects]
    /\ pc = "start"
    /\ installSteps = <<>>
    /\ stepIdx = 0
    /\ stepLog = <<>>
    /\ calls = <<>>
    /\ runErr = Nil
    /\ ApiIdle
    /\ pure = NoCall
    /\ racer \in {RacerIdle(s, n) : s \in BOOLEAN, n \in ClusterNames}

NextRace ==
    \/ Populate
    \/ RunStart
    \/ RaceStepResolve
    \/ StepInstall
    \/ RacerResolve
    \/ RacerInstall

SpecRace == InitRace /\ [][NextRace]_vars

\* ------------------------------------------- the functions called on their own
\* the longest name built character by character
MaxNameLen == 3

NameAlphabet == {"a", "1", "-", "A"}

ShortNames == UNION {[1..n -> NameAlphabet] : n \in 0..MaxNameLen}

\* names of 62 to 64 characters: a first and a last character around a run of
\* one repeated character
LongNames ==
    {<<h>> \o [i \in 1..k |-> f] \o <<t>> :
        h \in NameAlphabet, t \in NameAlphabet, f \in {"a", "-"}, k \in {60, 61, 62}}

NameInputs == ShortNames \cup LongNames

\* the tokens of the validator's inputs: those of Tokens, the other two
\* reserved names and a second non-compliant name
FnTokens == Tokens \cup {MonitoringNamespace, OLMNamespace, <<"d","-">>}

FnTokenSeqs == UNION {[1..n -> FnTokens] : n \in 0..MaxTokens}

TokenOrders(n) ==
    {p \in [1..n -> 1..n] : \A i, j \in 1..n : i # j => p[i] # p[j]}

\* namespace objects with near misses of the managed-by label: another value,
\* another capitalisation, the value under another key
ResolverObjects ==
    NsObjects \cup
    {[found |-> TRUE, labels |-> KubernetesManagedByLabel :> <<"E","v","e","r","e","s","t">>],
     [found |-> TRUE, labels |-> "managed-by" :> Everest]}

\* ValidateNamespaces called on a token sequence and on a permutation of it
CallValidateNamespaces ==
    /\ pure = NoCall
    /\ \E toks \in FnTokenSeqs : \E p \in TokenOrders(Len(toks)) :
         LET str1 == Join(toks)
             str2 == Join([i \in 1..Len(toks) |-> toks[p[i]]])
         IN \E r1 \in ValidateNamespaces(str1) : \E r2 \in ValidateNamespaces(str2) :
              pure' = [fn |-> "ValidateNamespaces", in |-> <<str1, str2>>,
                       out |-> <<r1, r2>>]
    /\ UNCHANGED <<nsVars, apiVars, racer>>

CallValidateRFC1035 ==
    /\ pure = NoCall
    /\ \E s \in NameInputs :
         pure' = [fn |-> "validateRFC1035", in |-> s, out |-> validateRFC1035(s)]
    /\ UNCHANGED <<nsVars, apiVars, racer>>

\* namespaceExists called for a namespace of a cluster holding at most db1
CallNamespaceExists ==
    /\ pure = NoCall
    /\ \E obj \in ResolverObjects : \E namespace \in ClusterNames : \E fetchFails \in BOOLEAN :
         LET cl == db1 :> obj IN
         pure' = [fn |-> "namespaceExists",
                  in |-> [cl |-> cl, namespace |-> namespace, fetchFails |-> fetchFails],
                  out |-> namespaceExists(cl, namespace, fetchFails)]
    /\ UNCHANGED <<nsVars, apiVars, racer>>

Return ==
    /\ pure # NoCall
    /\ pure' = NoCall
    /\ UNCHANGED <<nsVars, apiVars, racer>>

InitFn == NsIdle /\ ApiIdle /\ pure = NoCall /\ racer = NoRacer

NextFn ==
    \/ CallValidateNamespaces
    \/ CallValidateRFC1035
    \/ CallNamespaceExists
    \/ Return

SpecFn == InitFn /\ [][NextFn]_vars

\* =================================================================== claims
\* the state the resolver reported for a started step
ResolvedState(e) ==
    IF ~e.nsExists THEN "absent"
    ELSE IF e.ownedByEverest THEN "present-managed"
    ELSE "present-unmanaged"

\* the decision table of the provisioner, row by row
TableDecision(update, takeOwnership, state) ==
    CASE ~update /\ ~takeOwnership /\ state = "absent" ->
             [decision |-> "Install", msg |-> "-"]
      [] ~update /\ ~takeOwnership /\ state # "absent" ->
             [decision |-> "Conflict", msg |-> "already exists"]
      [] ~update /\ takeOwnership ->
             [decision |-> "Install", msg |-> "-"]
      [] update /\ state = "absent" ->
             [decision |-> "Conflict", msg |-> "does not exist"]
      [] update /\ state = "present-unmanaged" ->
             [decision |-> "Conflict", msg |-> "is not managed by Everest"]
      [] update /\ state = "present-managed" ->
             [decision |-> "Update", msg |-> "-"]

InstallerCallsFor(namespace) ==
    {k \in 1..Len(calls) : calls[k].ns = namespace /\ calls[k].op \in {"Init", "Install"}}

\* C1: every step whose namespace was resolved takes the decision the table
\* gives for (mode, take-ownership, resolved state): a Conflict carries the
\* table's message and goes no further, an Install or Update goes on to the
\* installer.
C1_DecisionTable ==
    \A i \in 1..Len(stepLog) :
        LET e == stepLog[i]
            t == TableDecision(cfg.Update, cfg.TakeOwnership, ResolvedState(e))
        IN ~e.resolveErr =>
             /\ e.decision = t.decision
             /\ t.decision = "Conflict" =>
                  /\ e.err = [kind |-> "conflict", msg |-> t.msg, ns |-> e.ns]
                  /\ InstallerCallsFor(e.ns) = {}
             /\ t.decision # "Conflict" =>
                  \/ pc = "install" /\ i = Len(stepLog)
                  \/ InstallerCallsFor(e.ns) # {}

\* an install without take-ownership that applied one namespace and then hit
\* an existing one
C1_Witness ==
    /\ ~cfg.Update /\ ~cfg.TakeOwnership
    /\ Len(stepLog) = 2
    /\ stepLog[1].decision = "Install" /\ stepLog[1].outcome = "Applied"
    /\ stepLog[2].decision = "Conflict" /\ stepLog[2].err.msg = "already exists"

\* C2: a step that resolves to a Conflict row, or whose resolver fails, never
\* initialises or invokes the installer, ends Failed, and Run returns the
\* error the step produced.
C2_ConflictNeverInstalls ==
    \A i \in 1..Len(stepLog) :
        LET e == stepLog[i]
            t == TableDecision(cfg.Update, cfg.TakeOwnership, ResolvedState(e))
        IN (e.resolveErr \/ t.decision = "Conflict") =>
             /\ InstallerCallsFor(e.ns) = {}
             /\ e.outcome = "Failed"
             /\ pc = "done"
             /\ runErr = IF e.resolveErr THEN ErrCannotCheck("Unavailable")
                         ELSE [kind |-> "conflict", msg |-> t.msg, ns |-> e.ns]

\* an update of a namespace that exists without the ownership label
C2_Witness ==
    /\ cfg.Update
    /\ stepLog # <<>>
    /\ LET e == stepLog[Len(stepLog)] IN
         /\ ResolvedState(e) = "present-unmanaged"
         /\ runErr = ErrNotManaged(e.ns)
         /\ InstallerCallsFor(e.ns) = {}

\* a name the validator lets through: not reserved and RFC 1035 compliant
NameAllowed(ns) ==
    /\ ns \notin {SystemNamespace, MonitoringNamespace, OLMNamespace}
    /\ MatchRFC1035(ns)

\* the trimmed, non-blank tokens of a requested namespace string
RequestedNames(str) ==
    LET toks == Split(str, ",") IN
    {TrimSpace(toks[k]) : k \in 1..Len(toks)} \ {<<>>}

Db1Db1System == Join(<<db1, db1, SystemNamespace>>)

\* C8: a step (state resolution or installer call) runs only for a namespace
\* of a requested string that passed validation; "db1,db1,everest-system"
\* fails with the Reserved error naming everest-system and no step runs.
C8_ValidationFirst ==
    /\ (stepLog # <<>> \/ calls # <<>> \/ installSteps # <<>>) =>
         /\ populateErr = Nil
         /\ RequestedNames(cfg.Namespaces) # {}
         /\ \A ns \in RequestedNames(cfg.Namespaces) : NameAllowed(ns)
         /\ \A k \in 1..Len(calls) : calls[k].ns \in RequestedNames(cfg.Namespaces)
    /\ cfg.Namespaces = Db1Db1System =>
         /\ pc = "populated" => populateErr = ErrNSReserved(SystemNamespace)
         /\ cfg.NamespaceList = <<>>
         /\ stepLog = <<>> /\ calls = <<>> /\ installSteps = <<>>

\* "db1,db1,everest-system" without take-ownership: Populate failed with the
\* Reserved error and Run, called all the same, ended without a step
C8_Witness ==
    /\ cfg.Namespaces = Db1Db1System
    /\ ~cfg.TakeOwnership
    /\ populateErr = ErrNSReserved(SystemNamespace)
    /\ pc = "done"
    /\ runErr = Nil
    /\ calls = <<>>

\* position of the first token of the requested string that trims to ns
FirstOccurrence(str, ns) ==
    LET toks == Split(str, ",") IN
    CHOOSE k \in 1..Len(toks) :
        /\ TrimSpace(toks[k]) = ns
        /\ \A j \in 1..(k - 1) : TrimSpace(toks[j]) # ns

\* C9: the steps run one at a time in the order in which the caller supplied
\* the namespaces (first occurrence of each): a step starts only after every
\* started step before it has ended, and a namespace supplied earlier is never
\* started later.
C9_CallerOrder ==
    /\ \A i \in 1..(Len(stepLog) - 1) : stepLog[i].outcome # "Running"
    /\ \A i, j \in 1..Len(stepLog) :
         i < j => FirstOccurrence(cfg.Namespaces, stepLog[i].ns)
                    < FirstOccurrence(cfg.Namespaces, stepLog[j].ns)

\* whether the step of entry e failed: the resolver failed, the resolved state
\* is a Conflict row, or an installer call for its namespace failed
StepFailed(e) ==
    \/ e.resolveErr
    \/ TableDecision(cfg.Update, cfg.TakeOwnership, ResolvedState(e)).decision = "Conflict"
    \/ \E k \in 1..Len(calls) : calls[k].ns = e.ns /\ calls[k].failed

\* C10: no step is started, and no external call made, after a failed step,
\* and Run returns the error of the step that failed.
C10_FailFast ==
    /\ \A i \in 1..(Len(stepLog) - 1) : ~StepFailed(stepLog[i])
    /\ \A k \in 1..(Len(calls) - 1) : ~calls[k].failed
    /\ (stepLog # <<>> /\ StepFailed(stepLog[Len(stepLog)])) =>
         /\ pc = "done"
         /\ stepLog[Len(stepLog)].outcome = "Failed"
         /\ runErr # Nil
         /\ runErr = stepLog[Len(stepLog)].err

\* two steps were built, the installer failed in the first, the second never
\* started
C10_Witness ==
    /\ Len(installSteps) = 2
    /\ Len(stepLog) = 1
    /\ pc = "done"
    /\ calls[Len(calls)].op = "Install" /\ calls[Len(calls)].failed
    /\ runErr = ErrHelmInstall(installSteps[1])

\* ------------------------------------------------------------ API claims
SingleObjectOps == {"create", "get", "update", "delete"}

RbacCallsBefore(k) == {j \in 1..(k - 1) : apiCalls[j].target = "rbac"}

\* the Authorizer answered Denied to a check of this request
DeniedAt(k) ==
    /\ apiCalls[k].target = "rbac"
    /\ Verdict(req.policy, apiCalls[k].key) = "Denied"

CredentialsGrant(r) ==
    <<"database-cluster-credentials", "read", <<r.namespace, r.dbClusterName>>>>

BackupGrant(r) == <<"database-cluster-backups", "read", <<r.namespace, r.srcBkp>>>>

RestoresGrant(r) ==
    <<"database-cluster-restores", "read", <<r.namespace, r.dbClusterName>>>>

ThreeGrants(r) == {CredentialsGrant(r), BackupGrant(r), RestoresGrant(r)}

AllGranted(r) == \A g \in ThreeGrants(r) : Verdict(r.policy, g) = "Allowed"

VerdictError(v) == IF v = "Denied" THEN errInsufficientPermissions ELSE ErrPolicy

\* a create request that got as far as the authorization
CreateReachedAuth == req.op = "create" /\ req.fail = "none"

\* C4: a restore creation passes the authorization iff credentials, backup and
\* restores grants are all Allowed; otherwise the request ends with the error
\* of a check that was not Allowed, and only these three grants are consulted.
C4_RestoreNeedsAllThree ==
    CreateReachedAuth =>
        /\ outcome.kind # "error" <=> AllGranted(req)
        /\ outcome.kind = "error" =>
             \E g \in ThreeGrants(req) :
                 /\ Verdict(req.policy, g) # "Allowed"
                 /\ outcome.body = VerdictError(Verdict(req.policy, g))
                 /\ apiCalls[Len(apiCalls)] = RbacCall(g)
        /\ \A k \in 1..Len(apiCalls) :
             apiCalls[k].target = "rbac" => apiCalls[k].key \in ThreeGrants(req)
        /\ AllGranted(req) =>
             {apiCalls[k].key : k \in {j \in 1..Len(apiCalls) : apiCalls[j].target = "rbac"}}
                 = ThreeGrants(req)

\* credentials and backup are granted, restores is denied
C4_Witness ==
    /\ CreateReachedAuth
    /\ Verdict(req.policy, CredentialsGrant(req)) = "Allowed"
    /\ Verdict(req.policy, BackupGrant(req)) = "Allowed"
    /\ Verdict(req.policy, RestoresGrant(req)) = "Denied"
    /\ outcome = ReturnErr(errInsufficientPermissions)

Conflict == JSON(400, Msg("Another restore process is in progress"))

\* C5: with the three grants Allowed a create for a cluster that is restoring
\* ends with the conflict answer and nothing is forwarded; with a grant Denied
\* (and no Authorizer failure) it ends with the permission error whatever the
\* status; an authorization failure is never answered with the conflict.
C5_ConflictAfterAuthorization ==
    CreateReachedAuth =>
        /\ (req.status = AppStateRestoring /\ AllGranted(req)) =>
             /\ outcome = Conflict
             /\ \A k \in 1..Len(apiCalls) : apiCalls[k].target # "proxy"
        /\ (/\ \E g \in ThreeGrants(req) : Verdict(req.policy, g) = "Denied"
            /\ \A g \in ThreeGrants(req) : Verdict(req.policy, g) # "Error") =>
             outcome = ReturnErr(errInsufficientPermissions)
        /\ ~AllGranted(req) => outcome.kind = "error" /\ outcome # Conflict
        /\ outcome = Conflict => outcome.body # errInsufficientPermissions

\* the cluster is restoring and every grant is Allowed
C5_Witness ==
    /\ CreateReachedAuth
    /\ req.status = AppStateRestoring
    /\ AllGranted(req)
    /\ outcome = Conflict
    /\ Len(apiCalls) = 5

\* the list request reached the transform
FilterRan == req.op = "list" /\ req.fail = "none" /\ MatchRFC1035(req.name)

ItemVerdict(it) ==
    Verdict(req.policy, <<"database-cluster-restores", "read", <<it.namespace, it.dbClusterName>>>>)

ItemAllowed(it) == ItemVerdict(it) = "Allowed"

\* C6: when every item decodes and the Authorizer answers only Allowed or
\* Denied, the list request succeeds and l.Items is exactly the subsequence of
\* the Allowed items: N - M items, in input order, none repeated or added.
C6_FilterKeepsAllowed ==
    (/\ FilterRan
     /\ \A i \in 1..Len(req.items) :
          req.items[i].decodable /\ ItemVerdict(req.items[i]) \in {"Allowed", "Denied"}) =>
        /\ outcome = JSON(200, Msg("list"))
        /\ listItems = SelectSeq(req.items, ItemAllowed)
        /\ Len(listItems) = Len(req.items)
             - Cardinality({i \in 1..Len(req.items) : ItemVerdict(req.items[i]) = "Denied"})

\* three items, the middle one denied
C6_Witness ==
    /\ FilterRan
    /\ Len(req.items) = 3
    /\ \A i \in 1..3 : req.items[i].decodable
    /\ ItemVerdict(req.items[1]) = "Allowed"
    /\ ItemVerdict(req.items[2]) = "Denied"
    /\ ItemVerdict(req.items[3]) = "Allowed"
    /\ listItems = <<req.items[1], req.items[3]>>

\* item i makes the transform fail
ItemFails(i) ==
    \/ ~req.items[i].decodable
    \/ ItemVerdict(req.items[i]) = "Error"

FirstFailing == CHOOSE i \in 1..Len(req.items) : ItemFails(i) /\ \A j \in 1..(i - 1) : ~ItemFails(j)

\* C7: when an item does not decode or the Authorizer fails on it, the list
\* request ends with that error at the first such item: l.Items stays as
\* fetched, and no item after it is decoded or authorized.
C7_FilterAborts ==
    (FilterRan /\ \E i \in 1..Len(req.items) : ItemFails(i)) =>
        LET k == FirstFailing IN
        /\ outcome = ReturnErr(IF ~req.items[k].decodable THEN ErrDecode ELSE ErrPolicy)
        /\ listItems = req.items
        /\ {apiCalls[c].key[1] : c \in {d \in 1..Len(apiCalls) : apiCalls[d].target = "decode"}}
             = 1..k
        /\ Cardinality({c \in 1..Len(apiCalls) : apiCalls[c].target = "rbac"})
             = IF req.items[k].decodable THEN k ELSE k - 1

\* an Allowed item, then one the Authorizer fails on, then one more
C7_Witness ==
    /\ FilterRan
    /\ Len(req.items) = 3
    /\ req.items[1].decodable /\ ItemVerdict(req.items[1]) = "Allowed"
    /\ req.items[2].decodable /\ ItemVerdict(req.items[2]) = "Error"
    /\ outcome = ReturnErr(ErrPolicy)
    /\ listItems = req.items

\* ------------------------------------------------- validator and resolver claims
ValidatorCalled == pure.fn = "ValidateNamespaces"

ReservedNames == {SystemNamespace, MonitoringNamespace, OLMNamespace}

\* the naming rule in words: 1 to 63 characters, lowercase letters, digits and
\* '-' only, a lowercase letter first, a lowercase letter or digit last
RFC1035Label(s) ==
    /\ Len(s) >= 1 /\ Len(s) <= 63
    /\ \A i \in 1..Len(s) : s[i] \in LowerAlpha \cup Digits \cup {"-"}
    /\ s[1] \in LowerAlpha
    /\ s[Len(s)] \in LowerAlpha \cup Digits

ValidName(ns) == ns \notin ReservedNames /\ RFC1035Label(ns)

\* the result is a list holding exactly the names of the set, each once
ListsExactly(r, names) ==
    /\ r.err = Nil
    /\ {r.list[k] : k \in 1..Len(r.list)} = names
    /\ Len(r.list) = Cardinality(names)

\* C12 as stated: for every input whose every non-blank trimmed token is a
\* valid, non-reserved name, ValidateNamespaces succeeds and returns exactly
\* the distinct trimmed non-empty tokens, each once.
C12_ExactNames ==
    ValidatorCalled =>
        LET names == RequestedNames(pure.in[1]) IN
        (\A ns \in names : ValidName(ns)) => ListsExactly(pure.out[1], names)

\* C12: for every input with at least one non-blank token whose every non-blank
\* trimmed token is a valid, non-reserved name, ValidateNamespaces succeeds and
\* returns exactly the distinct trimmed non-empty tokens, each once; with no
\* non-blank token it fails with the EmptyList error.
C12_ExactNamesOfNonBlank ==
    ValidatorCalled =>
        LET names == RequestedNames(pure.in[1]) IN
        (\A ns \in names : ValidName(ns)) =>
            IF names # {} THEN ListsExactly(pure.out[1], names)
            ELSE pure.out[1] = [list |-> <<>>, err |-> ErrNSEmpty]

\* "db1, db2,db1" gave the two names db1 and db2
C12_Witness ==
    /\ ValidatorCalled
    /\ pure.in[1] = Join(<<db1, <<" ">> \o db2, db1>>)
    /\ Len(pure.out[1].list) = 2
    /\ {pure.out[1].list[1], pure.out[1].list[2]} = {db1, db2}

\* C13: ValidateNamespaces succeeds iff the input has a non-blank token and
\* every non-blank token is neither reserved nor non-compliant; otherwise it
\* returns no list and one error: EmptyList without a non-blank token, else
\* Reserved naming a reserved token or NotCompliant naming a non-compliant one.
C13_ValidatorOutcome ==
    ValidatorCalled =>
        LET names == RequestedNames(pure.in[1])
            r     == pure.out[1]
            ok    == names # {} /\ \A ns \in names : ValidName(ns)
        IN /\ r.err = Nil <=> ok
           /\ ~ok =>
                /\ r.list = <<>>
                /\ names = {} => r.err = ErrNSEmpty
                /\ names # {} =>
                     \E ns \in names :
                        \/ ns \in ReservedNames /\ r.err = ErrNSReserved(ns)
                        \/ /\ ns \notin ReservedNames
                           /\ ~RFC1035Label(ns)
                           /\ r.err = ErrNameNotRFC1035Compatible(ns)

\* " ,everest-olm,db1" failed with the Reserved error naming everest-olm
C13_Witness ==
    /\ ValidatorCalled
    /\ pure.in[1] = Join(<<<<" ">>, OLMNamespace, db1>>)
    /\ pure.out[1] = [list |-> <<>>, err |-> ErrNSReserved(OLMNamespace)]

C15_OrderIndependent ==
    ValidatorCalled =>
        LET r1 == pure.out[1]
            r2 == pure.out[2]
        IN /\ r1.err = r2.err
           /\ {r1.list[k] : k \in 1..Len(r1.list)} = {r2.list[k] : k \in 1..Len(r2.list)}

\* C16: the resolver reports absent without error when the namespace is not
\* found, an error on any other fetch failure, present-managed when the found
\* namespace carries the managed-by label with the value everest, and
\* present-unmanaged when the label is missing or holds another value; it never
\* reports managed for a namespace that does not exist.
C16_Resolver ==
    pure.fn = "namespaceExists" =>
        LET a     == pure.in
            r     == pure.out
            found == a.namespace \in DOMAIN a.cl /\ a.cl[a.namespace].found
            l     == a.cl[a.namespace].labels
        IN /\ a.fetchFails => r.err # Nil /\ ~r.nsExists /\ ~r.ownedByEverest
           /\ (~a.fetchFails /\ ~found) =>
                r = [nsExists |-> FALSE, ownedByEverest |-> FALSE, err |-> Nil]
           /\ (~a.fetchFails /\ found) =>
                /\ r.err = Nil
                /\ r.nsExists
                /\ r.ownedByEverest <=>
                     (\E k \in DOMAIN l :
                         k = "app.kubernetes.io/managed-by"
                         /\ l[k] = <<"e","v","e","r","e","s","t">>)
           /\ r.ownedByEverest => r.nsExists

\* a namespace labelled managed-by "Everest" was reported present-unmanaged
C16_Witness ==
    /\ pure.fn = "namespaceExists"
    /\ ~pure.in.fetchFails
    /\ pure.in.namespace = db1
    /\ pure.in.cl[db1] =
         [found |-> TRUE,
          labels |-> KubernetesManagedByLabel :> <<"E","v","e","r","e","s","t">>]
    /\ pure.out = [nsExists |-> TRUE, ownedByEverest |-> FALSE, err |-> Nil]

\* ------------------------------------------------------- restore object identity
RbacCalls == SelectSeq(apiCalls, LAMBDA c : c.target = "rbac")

\* the action each operation asks the Authorizer about
OpAction(op) ==
    IF op = "update" THEN "update" ELSE IF op = "delete" THEN "delete" ELSE "read"

\* the object a restore is authorized as: its namespace and source cluster
ClusterObject(restore) == <<restore.namespace, restore.dbClusterName>>

Kept(it) == \E k \in 1..Len(listItems) : listItems[k].name = it.name

\* C17: for list, get, update and delete the Authorizer is asked about the
\* resource database-cluster-restores with the object (restore namespace, source
\* cluster name), never the restore's own name: the decision is the policy's
\* verdict for that object, and two restores of one list in the same namespace
\* restoring the same cluster are both kept or both dropped.
C17_ObjectIsSourceCluster ==
    /\ req.op \in {"get", "update", "delete"} =>
         /\ \A k \in 1..Len(RbacCalls) :
              RbacCalls[k].key = <<"database-cluster-restores", OpAction(req.op),
                                   ClusterObject(req.restore)>>
         /\ Len(RbacCalls) <= 1
         /\ RbacCalls # <<>> =>
              LET v == Verdict(req.policy,
                               <<"database-cluster-restores", OpAction(req.op),
                                 ClusterObject(req.restore)>>)
              IN /\ outcome = ReturnErr(errInsufficientPermissions) <=> v = "Denied"
                 /\ v # "Allowed" => \A k \in 1..Len(apiCalls) : apiCalls[k].target # "proxy"
    /\ req.op = "list" =>
         /\ Len(RbacCalls) <= Len(req.items)
         /\ \A k \in 1..Len(RbacCalls) :
              RbacCalls[k].key = <<"database-cluster-restores", "read",
                                   ClusterObject(req.items[k])>>
         /\ outcome = JSON(200, Msg("list")) =>
              \A i, j \in 1..Len(req.items) :
                  ClusterObject(req.items[i]) = ClusterObject(req.items[j]) =>
                      (Kept(req.items[i]) <=> Kept(req.items[j]))

\* a list of two restores of c1 and one of c2, c1 granted and c2 not: both
\* restores of c1 are kept and the restore of c2 is dropped
C17_Witness ==
    /\ req.op = "list"
    /\ Len(req.items) = 3
    /\ ClusterObject(req.items[1]) = ClusterObject(req.items[3])
    /\ ClusterObject(req.items[1]) # ClusterObject(req.items[2])
    /\ Len(RbacCalls) = 3
    /\ ItemVerdict(req.items[2]) = "Denied"
    /\ listItems = <<req.items[1], req.items[3]>>

\* ---------------------------------------------------- re-run and concurrency
InstallerOps == {"Init", "Install"}

RacerInstallerCalls ==
    {racer.calls[k] : k \in {j \in 1..Len(racer.calls) : racer.calls[j].op \in InstallerOps}}

MainInstallerCalls ==
    {calls[k] : k \in {j \in 1..Len(calls) : calls[j].op \in InstallerOps}}

\* the second invocation resolved its namespace after the first invocation's
\* step for that namespace had ended Applied
SecondRun == racer.pc \in {"install", "done"} /\ racer.afterApplied

\* the second invocation ended and neither its fetch nor its installer failed
SecondRunEndedUnhindered ==
    /\ SecondRun
    /\ racer.pc = "done"
    /\ \A k \in 1..Len(racer.calls) : ~racer.calls[k].failed

ManagedNamespace == [found |-> TRUE, labels |-> "app.kubernetes.io/managed-by" :> Everest]

\* C11 as stated: a second run of the step for a namespace, with the same mode
\* and take-ownership flag, after the first run was Applied, ends Applied again
\* and leaves the namespace record as the first run left it.
C11_Idempotent ==
    SecondRunEndedUnhindered =>
        /\ racer.outcome = "Applied"
        /\ cluster[racer.ns] = racer.before

\* C11: after a first run ended Applied the namespace is present and managed;
\* a second run with the same mode and take-ownership flag leaves that record
\* as it was, and, when its fetch and installer calls succeed, ends Applied
\* again (installer called without namespace creation) in update mode and in
\* install mode with take-ownership, and fails with "already exists" before any
\* installer call in install mode without take-ownership.
C11_IdempotentUnlessExists ==
    SecondRun =>
        /\ racer.before = ManagedNamespace
        /\ cluster[racer.ns] = racer.before
        /\ ~racer.resolveErr => racer.nsExists /\ racer.ownedByEverest
        /\ SecondRunEndedUnhindered =>
             IF cfg.Update \/ cfg.TakeOwnership
             THEN /\ racer.outcome = "Applied"
                  /\ RacerInstallerCalls # {}
                  /\ \A c \in RacerInstallerCalls : ~c.create
             ELSE /\ racer.outcome = "Failed"
                  /\ racer.err = ErrAlreadyExists(racer.ns)
                  /\ RacerInstallerCalls = {}

\* install with take-ownership: db1 was absent, the first run ended Applied and
\* the second run ended Applied too
C11_Witness ==
    /\ SecondRunEndedUnhindered
    /\ ~cfg.Update /\ cfg.TakeOwnership
    /\ racer.ns = db1
    /\ \E i \in 1..Len(stepLog) : stepLog[i].ns = db1 /\ ~stepLog[i].nsExists
    /\ racer.outcome = "Applied"
    /\ cluster[db1] = ManagedNamespace

\* C18: when the caller serializes the invocations, the installer is asked to
\* create a namespace only while the namespace is absent, and an install
\* without take-ownership never reaches the installer for a present namespace.
\* The code takes no lock: without serialization an invocation can resolve
\* whatever the other is doing.
C18_SerializedCreatesOnlyAbsent ==
    /\ racer.serialized =>
         \A c \in MainInstallerCalls \cup RacerInstallerCalls :
             /\ c.create => ~c.present
             /\ (~cfg.Update /\ ~cfg.TakeOwnership) => ~c.present
    /\ (~racer.serialized /\ racer.pc = "idle") => ENABLED RacerResolve
    /\ (~racer.serialized /\ pc = "resolve") => ENABLED StepResolve

\* two invocations that were not serialized both resolved db1 as absent and
\* both reached the installer with CreateReleaseNamespace = true, the later one
\* while db1 was already present
C18_Witness ==
    /\ ~racer.serialized
    /\ racer.ns = db1
    /\ ~racer.nsExists /\ ~racer.resolveErr
    /\ \E i \in 1..Len(stepLog) :
          stepLog[i].ns = db1 /\ ~stepLog[i].nsExists /\ ~stepLog[i].resolveErr
    /\ \E c \in MainInstallerCalls : \E d \in RacerInstallerCalls :
          /\ c.op = "Install" /\ d.op = "Install"
          /\ c.ns = db1 /\ d.ns = db1
          /\ c.create /\ d.create
          /\ c.present \/ d.present

\* C19: whenever the installer is called its create-namespace flag is true
\* exactly when the resolver reported the namespace absent in that step; it is
\* false in update mode and for an install with take-ownership into an existing
\* namespace; release name and release namespace are the step's namespace.
C19_CreateIffAbsent ==
    \A c \in MainInstallerCalls :
        \E i \in 1..Len(stepLog) :
            /\ stepLog[i].ns = installSteps[i]
            /\ c.ns = installSteps[i]
            /\ c.release = installSteps[i]
            /\ c.create <=> ~stepLog[i].nsExists
            /\ cfg.Update => ~c.create
            /\ (~cfg.Update /\ cfg.TakeOwnership /\ stepLog[i].nsExists) => ~c.create
            /\ ~stepLog[i].resolveErr

\* install with take-ownership into the existing unmanaged db1: the installer
\* ran without namespace creation
C19_Witness ==
    /\ ~cfg.Update /\ cfg.TakeOwnership
    /\ \E i \in 1..Len(stepLog) :
          /\ stepLog[i].ns = db1
          /\ stepLog[i].nsExists /\ ~stepLog[i].ownedByEverest
          /\ stepLog[i].outcome = "Applied"
    /\ \E c \in MainInstallerCalls :
          c.op = "Install" /\ c.ns = db1 /\ c.release = db1 /\ ~c.create /\ c.present

CallsOf(op, ns) == {k \in 1..Len(calls) : calls[k].op = op /\ calls[k].ns = ns}

\* C20: within one Run the resolver and the installer are each called at most
\* once per namespace: the validated list has no duplicates, Run builds one
\* step per list entry, and a step is never run twice.
C20_OncePerNamespace ==
    /\ \A i, j \in 1..Len(cfg.NamespaceList) :
          i # j => cfg.NamespaceList[i] # cfg.NamespaceList[j]
    /\ installSteps \in {<<>>, cfg.NamespaceList}
    /\ Len(stepLog) <= Len(installSteps)
    /\ \A i \in 1..Len(stepLog) : stepLog[i].ns = installSteps[i]
    /\ \A ns \in ClusterNames :
          /\ Cardinality(CallsOf("GetNamespace", ns)) <= 1
          /\ Cardinality(CallsOf("Init", ns)) <= 1
          /\ Cardinality(CallsOf("Install", ns)) <= 1
    /\ \A k \in 1..Len(calls) : calls[k].ns \in ClusterNames

\* "db1, db2,db1" ran to the end: two steps, each namespace resolved once and
\* installed once
C20_Witness ==
    /\ cfg.Namespaces = Join(<<db1, <<" ">> \o db2, db1>>)
    /\ pc = "done"
    /\ runErr = Nil
    /\ Len(stepLog) = 2
    /\ Len(calls) = 6
    /\ Cardinality(CallsOf("Install", db1)) = 1
    /\ Cardinality(CallsOf("Install", db2)) = 1

\* ------------------------------------------------------------ the pass-through
ForwardingOps == {"create", "update", "delete"}

ProxyCalls == {k \in 1..Len(apiCalls) : apiCalls[k].target = "proxy"}

\* the grants the handler of the request asks for
RequiredGrants ==
    IF req.op = "create" THEN ThreeGrants(req)
    ELSE {<<"database-cluster-restores", OpAction(req.op), ClusterObject(req.restore)>>}

\* C21: in the create, update and delete handlers proxyKubernetes is called at
\* most once per request, as the last call, and only after every grant the
\* handler requires was asked for and Allowed, for create after the restoring
\* test passed and for update after body, metadata and restore validated; a
\* request whose subject lacks a required grant is never forwarded.
C21_ForwardOnceAfterAuthorization ==
    req.op \in ForwardingOps =>
        /\ Cardinality(ProxyCalls) <= 1
        /\ \A k \in ProxyCalls :
             /\ k = Len(apiCalls)
             /\ outcome = Proxied
             /\ req.fail = "none"
             /\ \A g \in RequiredGrants :
                  /\ Verdict(req.policy, g) = "Allowed"
                  /\ \E j \in RbacCallsBefore(k) : apiCalls[j].key = g
             /\ req.op = "create" => req.status # "restoring"
             /\ req.op = "update" =>
                  \E j \in 1..(k - 1) :
                      /\ apiCalls[j] = KubeCall("validateDatabaseClusterRestore")
                      /\ RbacCallsBefore(j) # {}
        /\ (\E g \in RequiredGrants : Verdict(req.policy, g) # "Allowed") =>
             /\ ProxyCalls = {}
             /\ outcome # Proxied

\* an update of a restore of c2 by a subject granted update on c2: the restore
\* was read, the Authorizer asked, the body validated and the request forwarded
C21_Witness ==
    /\ req.op = "update"
    /\ req.restore.dbClusterName = "c2"
    /\ Len(apiCalls) = 4
    /\ apiCalls[1] = KubeCall("GetDatabaseClusterRestore")
    /\ apiCalls[2] = RbacCall(<<"database-cluster-restores", "update", <<"ns1", "c2">>>>)
    /\ apiCalls[3] = KubeCall("validateDatabaseClusterRestore")
    /\ apiCalls[4] = ProxyCall
    /\ outcome = Proxied

\* ------------------------------------------------------------ frame of a step
Present(obj) == obj.found

Managed(obj) ==
    /\ obj.found
    /\ "app.kubernetes.io/managed-by" \in DOMAIN obj.labels
    /\ obj.labels["app.kubernetes.io/managed-by"] = <<"e","v","e","r","e","s","t">>

\* the step the run is in ended with this transition
StepEnded(outcomes) ==
    /\ stepLog' # <<>>
    /\ stepLog' # stepLog
    /\ stepLog'[Len(stepLog')].outcome \in outcomes

\* C22: a step changes at most the record of its own namespace, and only when
\* it ends Applied; a step that ends failed (Conflict, resolver error, installer
\* error) changes no record; no namespace goes from present to absent or from
\* managed to unmanaged; the namespace of every step that ended Applied stays
\* present and managed for the rest of the run, whatever later steps do.
C22_FrameNoRollback ==
    [][/\ \A ns \in ClusterNames :
            /\ cluster'[ns] # cluster[ns] =>
                 /\ pc = "install"
                 /\ installSteps[stepIdx] = ns
                 /\ StepEnded({"Applied"})
                 /\ stepLog'[Len(stepLog')].ns = ns
                 /\ Managed(cluster'[ns])
            /\ Present(cluster[ns]) => Present(cluster'[ns])
            /\ Managed(cluster[ns]) => Managed(cluster'[ns])
       /\ pc = "resolve" => cluster' = cluster
       /\ StepEnded({"Failed"}) => cluster' = cluster
       /\ \A i \in 1..Len(stepLog') :
            stepLog'[i].outcome = "Applied" => Managed(cluster'[stepLog'[i].ns])
      ]_vars

\* the first step created and labelled its absent namespace, the second step
\* ended in Conflict: the run is over and the first namespace is still managed
C22_Witness ==
    /\ pc = "done"
    /\ Len(stepLog) = 2
    /\ ~stepLog[1].nsExists
    /\ stepLog[1].outcome = "Applied"
    /\ stepLog[2].outcome = "Failed"
    /\ stepLog[2].decision = "Conflict"
    /\ runErr # Nil
    /\ Managed(cluster[stepLog[1].ns])

=============================================================================
